---- MODULE Spec2Model ----
(***************************************************************************)
(* Model of the buffering / reconciliation engine (class Net) and of the   *)
(* request deduplicator (SDKFetch.get) of teambition-sdk.                  *)
(*                                                                         *)
(* Streams are rxjs Observables.  A cold stream does nothing until it is   *)
(* subscribed and runs once per subscription, so every subscription is a   *)
(* little process of the model: an entry of `subs` with the position it    *)
(* has reached in its pipeline.                                            *)
(***************************************************************************)
EXTENDS Integers, Sequences, FiniteSets, TLC

VARIABLES
  database,             \* Net.database (None while unattached)
  persistedDataBuffer,  \* Net.persistedDataBuffer
  requestMap,           \* Net.requestMap: the keys mapped to true
  FetchStack,           \* SDKFetch.FetchStack: urlWithQuery -> stream (dist) id
  dists,                \* the streams SDKFetch.get has created: dist id -> url
  reads,                \* the reads issued through lift, in issue order, each
                        \* with its token, its placeholder channel's values and
                        \* (for the record) requestMap as it was at the call
  writes,               \* the writes issued through lift, in issue order
  asyncQueues,          \* the asyncQueue of every persist call, in call order
  subs,                 \* per stream: its subscriptions, in subscription order
  subscribed,           \* number of subscriptions made
  store,                \* per database: the operations applied to it, in order
  pushed,               \* number of entries ever pushed to the buffer (entry ids)
  sockets,              \* number of bufferSocketPush calls
  thrown,               \* number of lift calls that threw a TypeError
  delivery              \* the last result set a read's selector handed to its
                        \* consumer, with what validate did to it

vars == <<database, persistedDataBuffer, requestMap, FetchStack, dists, reads,
          writes, asyncQueues, subs, subscribed, store, pushed, sockets, thrown, delivery>>

(***************************************************************************)
(* Bounds of the model.                                                    *)
(***************************************************************************)
MaxOps == 2        \* lift / bufferSocketPush calls
MaxSubs == 2       \* subscriptions of any stream
MaxPersist == 2    \* persist calls

(***************************************************************************)
(* Values.                                                                 *)
(***************************************************************************)
None == "none"
Undefined == "undefined"
Databases == {"db1", "db2"}

CacheStrategy_Request == 200
CacheStrategy_Cache == CacheStrategy_Request + 1

\* The one schema of the repository's sources: CustomField, primary key _id.
SchemaNames == {"CustomField"}
\* The table names the callers pass: the declared one and one no schema declares.
TableNames == SchemaNames \cup {"Undeclared"}
SchemaFields(name) ==
  <<"_id", "_creatorId", "_organizationId", "_projectId", "_roleIds",
    "boundType", "categoryIds", "choices", "created", "description",
    "displayed", "name", "pos", "type", "updated">>

\* Net.fields and Net.primaryKeys as the constructor fills them.
fields == [n \in SchemaNames |-> SchemaFields(n)]
primaryKeys == [n \in SchemaNames |-> "_id"]

\* A query object is the sequence of its own properties, <<name, value>>, in
\* insertion order.
Rows == {"A"}

\* JSON.stringify of an object: properties whose value is undefined are left out.
Stringify(obj) == SelectSeq(obj, LAMBDA p : p[2] # Undefined)

(***************************************************************************)
(* Net.validate: the padding of the records a read hands to its consumer.  *)
(***************************************************************************)
\* An optional property of a read descriptor: left out, or given with a value.
NotGiven == <<Undefined>>
RequiredName == <<"array", <<"name">> >>
PaddingById == <<"function", "byId">>

\* The records of a result set: each has its primary key, and its name or not.
RecordIds == {"A", "B"}
Records == [_id : RecordIds, name : {"n", Undefined}]
DataSets ==
  {<< >>} \cup {<<x>> : x \in Records}
          \cup {p \in Records \X Records : p[1]._id # p[2]._id}

\* What the caller's padding function answers for a primary key, as the
\* sequence of the values its stream emits: the record with its name, or null
\* for a key it does not know.
Null == [null |-> TRUE]
Patch(padding, missedId) ==
  IF missedId = "A" THEN <<[_id |-> "A", name |-> "fetched"]>> ELSE <<Null>>

\* Object.assign(datum, r)
Assign(datum, r) == [f \in DOMAIN datum |-> IF f \in DOMAIN r THEN r[f] ELSE datum[f]]

\* validate(result) applied to one result set while the store db is attached:
\* the padding calls made, the records upserted, the data handed on, and
\* whether forkJoin emits at all (it does once an inner stream has emitted).
validate(result, data, db) ==
  LET hasRequiredFields == result.required[1] = "array"
      hasPaddingFunction == result.padding[1] = "function"
      pk == IF result.tableName \in DOMAIN primaryKeys
              THEN primaryKeys[result.tableName] ELSE Undefined
      AsIs(datum) ==
        \/ ~hasRequiredFields \/ ~hasPaddingFunction \/ pk = Undefined
        \/ \A i \in 1..Len(result.required[2]) : datum[result.required[2][i]] # Undefined
      patch(datum) == SelectSeq(Patch(result.padding, datum[pk]), LAMBDA r : r # Null)
      Yields(datum) == ~AsIs(datum) /\ patch(datum) # << >>
      padded == SelectSeq(data, LAMBDA datum : ~AsIs(datum))
      yielded == SelectSeq(data, Yields)
  IN [calls |-> [i \in 1..Len(padded) |-> padded[i][pk]],
      upserts |-> [i \in 1..Len(yielded) |->
                     [database |-> db, tableName |-> result.tableName,
                      value |-> patch(yielded[i])[1]]],
      data |-> [i \in 1..Len(data) |->
                  IF Yields(data[i]) THEN Assign(data[i], patch(data[i])[1]) ELSE data[i]],
      emits |-> data = << >> \/ \E i \in 1..Len(data) : AsIs(data[i]) \/ Yields(data[i])]

(***************************************************************************)
(* SDKFetch.get: the deduplicator.                                         *)
(***************************************************************************)
ApiHost == "https://www.teambition.com/api"
Paths == {"customfields"}

urlWithPath(path) == <<ApiHost, path>>

\* SDKFetch._buildQuery: key=value for every property but '_' and undefined ones.
BuildQuery(url, query) ==
  <<url, SelectSeq(query, LAMBDA p : p[1] # "_" /\ p[2] # Undefined)>>

\* FetchStack after get(path, query): a new stream is made and stored only when
\* the key has no entry.
FetchStackAfterGet(urlWithQuery) ==
  IF urlWithQuery \in DOMAIN FetchStack
    THEN FetchStack
    ELSE FetchStack @@ (urlWithQuery :> Len(dists) + 1)

\* A finalizer that leaves the entry in place.
FetchStackDelete_KeepsEntry(urlWithQuery) == FetchStack

\* finalize(() => FetchStack.delete(urlWithQuery)): runs when a subscription of
\* the stream ends, and deletes whatever entry the key has then.
FetchStackDelete(urlWithQuery) ==
  [u \in DOMAIN FetchStack \ {urlWithQuery} |-> FetchStack[u]]

(***************************************************************************)
(* Net: pure helpers.                                                      *)
(***************************************************************************)
\* { ...query, fields }: fields replaces a property of that name, else is added.
WithFields(query, flds) ==
  IF \E i \in 1..Len(query) : query[i][1] = "fields"
    THEN [i \in 1..Len(query) |->
            IF query[i][1] = "fields" THEN <<"fields", flds>> ELSE query[i]]
    ELSE Append(query, <<"fields", flds>>)

IsDefinedTable(tableName) == tableName \in DOMAIN fields

getInfoFromResult(result) ==
  LET assoc == IF result.assocFields = Undefined THEN <<>> ELSE <<result.assocFields>>
      kept == SelectSeq(fields[result.tableName],
                        LAMBDA f : f \notin result.excludeFields)
  IN [request |-> result.request,
      q |-> WithFields(result.query, assoc \o kept),
      cacheValidate |-> result.cacheValidate,
      tableName |-> result.tableName]

genCacheKey(tableName, q) == <<tableName, Stringify(q)>>

CacheKeyOf(result) ==
  LET info == getInfoFromResult(result) IN genCacheKey(info.tableName, info.q)

\* The stages of a stream, in pipeline order.  "request" (the network request)
\* and "store" (a store mutation) are asynchronous: they end in a later event.
\* "set" (the tap that marks the cache key), "get" (database.get: its selector$
\* replays the connected database, emits the selector and completes) and "push"
\* (the do that fills the buffer) run inside the event that ends the stage
\* before them.
AsyncStages == {"request", "store"}

\* The token of a read that is still buffered (bufferResponse): a QueryToken on
\* the placeholder channel, with validate mapped on it.
BufferToken ==
  [branch |-> "buffer", database |-> None, pipeline |-> << >>, validate |-> TRUE]

\* handleRequestCache: the token of a read resolved against database db.
\*   Request, key unseen: response$ -> upsert -> requestMap.set -> db.get
\*   Request, key seen  : db.get
\*   Cache              : response$ -> upsert -> db.get   (validate not mapped)
\* handleRequestCache with the cache key set when the token is subscribed to.
handleRequestCache_SetBeforeFetch(db, result) ==
  LET info == getInfoFromResult(result)
      requestCache == genCacheKey(info.tableName, info.q) \in requestMap
  IN IF info.cacheValidate = CacheStrategy_Request
       THEN IF ~requestCache
              THEN [branch |-> "fetch", database |-> db,
                    pipeline |-> <<"set", "request", "store", "get">>, validate |-> TRUE]
              ELSE [branch |-> "direct", database |-> db,
                    pipeline |-> <<"get">>, validate |-> TRUE]
       ELSE [branch |-> "fetch", database |-> db,
             pipeline |-> <<"request", "store", "get">>, validate |-> FALSE]

\* handleRequestCache with the cache key set before the upsert.
handleRequestCache_SetBeforeUpsert(db, result) ==
  LET info == getInfoFromResult(result)
      requestCache == genCacheKey(info.tableName, info.q) \in requestMap
  IN IF info.cacheValidate = CacheStrategy_Request
       THEN IF ~requestCache
              THEN [branch |-> "fetch", database |-> db,
                    pipeline |-> <<"request", "set", "store", "get">>, validate |-> TRUE]
              ELSE [branch |-> "direct", database |-> db,
                    pipeline |-> <<"get">>, validate |-> TRUE]
       ELSE [branch |-> "fetch", database |-> db,
             pipeline |-> <<"request", "store", "get">>, validate |-> FALSE]

\* handleRequestCache that does not consult requestMap.
handleRequestCache_IgnoresSeen(db, result) ==
  LET info == getInfoFromResult(result)
  IN IF info.cacheValidate = CacheStrategy_Request
       THEN [branch |-> "fetch", database |-> db,
             pipeline |-> <<"request", "store", "set", "get">>, validate |-> TRUE]
       ELSE [branch |-> "fetch", database |-> db,
             pipeline |-> <<"request", "store", "get">>, validate |-> FALSE]

\* handleRequestCache whose Cache branch sets the cache key as well.
handleRequestCache_CacheSetsKey(db, result) ==
  LET info == getInfoFromResult(result)
      requestCache == genCacheKey(info.tableName, info.q) \in requestMap
  IN IF info.cacheValidate = CacheStrategy_Request /\ requestCache
       THEN [branch |-> "direct", database |-> db,
             pipeline |-> <<"get">>, validate |-> TRUE]
       ELSE [branch |-> "fetch", database |-> db,
             pipeline |-> <<"request", "store", "set", "get">>,
             validate |-> info.cacheValidate = CacheStrategy_Request]

handleRequestCache(db, result) ==
  LET info == getInfoFromResult(result)
      cacheKey == genCacheKey(info.tableName, info.q)
      requestCache == cacheKey \in requestMap
  IN IF info.cacheValidate = CacheStrategy_Request
       THEN IF ~requestCache
              THEN [branch |-> "fetch", database |-> db,
                    pipeline |-> <<"request", "store", "set", "get">>,
                    validate |-> TRUE]
              ELSE [branch |-> "direct", database |-> db,
                    pipeline |-> <<"get">>, validate |-> TRUE]
       ELSE [branch |-> "fetch", database |-> db,
             pipeline |-> <<"request", "store", "get">>, validate |-> FALSE]

\* The value a read's network response carries: what its request stream emits.
ResponseOf(result) == <<"response", result.request>>

\* The work of a read's selector$ as one context record.
ReadContext(rid, eid, token) ==
  [kind |-> "Selector", eid |-> eid, rid |-> rid, wid |-> 0, wsub |-> 0,
   database |-> token.database, op |-> "upsert",
   tableName |-> reads[rid].result.tableName,
   value |-> ResponseOf(reads[rid].result), pipeline |-> token.pipeline]

(***************************************************************************)
(* Net.persist: the asyncQueue built from the buffer.                      *)
(***************************************************************************)
\* Dirty.handleSocketMessage: a merge stream for the record types that have a
\* dirty-field handler, null for the others.
DirtyTypes == {"event"}
NullStream == <<"null">>
Dirty_handleSocketMessage(id, type, data, db) ==
  IF type \in DirtyTypes THEN <<"dirtyStream", id, data>> ELSE NullStream

\* The where clause built from the id alone.
IdOrData_IdOnly(socketMessage) == <<"id", socketMessage.id>>

\* `socketMessage.id || socketMessage.data`: the empty id is falsy.
IdOrData(socketMessage) ==
  IF socketMessage.id # "" THEN <<"id", socketMessage.id>> ELSE socketMessage.data

\* What one buffer entry adds to asyncQueue: one stream, or nothing.
\* db is persist's argument, attached is this.database after line 437.
QueueItem(v, db, attached) ==
  LET base == [kind |-> v.kind, eid |-> v.eid, rid |-> 0, wid |-> 0, wsub |-> 0,
               database |-> db,
               op |-> "upsert", tableName |-> "", value |-> << >>,
               pipeline |-> <<"store">>]
  IN IF v.kind = "CUD"
       THEN << [base EXCEPT !.wid = v.wid, !.wsub = v.wsub, !.op = v.method,
                            !.tableName = v.tableName, !.value = v.value] >>
     ELSE IF v.kind = "SocketCUD"
       THEN LET m == v.socketMessage IN
            IF m.method \in {"destroy", "remove"}
              THEN << [base EXCEPT !.op = "delete", !.tableName = v.arg,
                                   !.value = <<"where", v.pkName, IdOrData(m)>>] >>
            ELSE IF m.method = "new"
              THEN << [base EXCEPT !.tableName = v.arg, !.value = m.data] >>
            ELSE IF m.method = "change"
              THEN LET dirtyStream == Dirty_handleSocketMessage(m.id, v.type, m.data, db) IN
                   IF dirtyStream # NullStream
                     THEN << [base EXCEPT !.op = "dirty", !.tableName = v.arg,
                                          !.value = dirtyStream] >>
                     ELSE << [base EXCEPT !.tableName = v.arg,
                                          !.value = <<"merge", m.data, v.pkName, m.id>>] >>
            ELSE << >>
     ELSE << ReadContext(v.proxySelector, v.eid,
                         handleRequestCache(attached, v.realSelectorInfo)) >>

\* The asyncQueue built back to front.
RECURSIVE AsyncQueue_Reversed(_, _, _)
AsyncQueue_Reversed(buffer, db, attached) ==
  IF buffer = << >>
    THEN << >>
    ELSE AsyncQueue_Reversed(Tail(buffer), db, attached)
           \o QueueItem(Head(buffer), db, attached)

RECURSIVE AsyncQueue(_, _, _)
AsyncQueue(buffer, db, attached) ==
  IF buffer = << >>
    THEN << >>
    ELSE QueueItem(Head(buffer), db, attached) \o AsyncQueue(Tail(buffer), db, attached)

(***************************************************************************)
(* Subscriptions.                                                          *)
(* A stream is <<kind, ref>>:                                              *)
(*   <<"drain", d>>: the stream persist call number d returned;            *)
(*   <<"token", r>>: the selector$ of the QueryToken of read r;            *)
(*   <<"write", w>>: the stream lift returned for write w.                 *)
(* A subscription of it is [pos, stage, status]: pos is the asyncQueue     *)
(* element concatAll is subscribed to (drains only), stage the index, in   *)
(* the pipeline of the current stream, of the asynchronous stage in flight.*)
(***************************************************************************)
StreamIds ==
  ({"drain"} \X (1..MaxPersist)) \cup ({"token", "write"} \X (1..MaxOps))

Exists(sid) ==
  IF sid[1] = "drain" THEN sid[2] <= Len(asyncQueues)
  ELSE IF sid[1] = "token" THEN sid[2] <= Len(reads) /\ reads[sid[2]].token.branch # "buffer"
  ELSE sid[2] <= Len(writes)

Context(sid, s) ==
  IF sid[1] = "drain" THEN asyncQueues[sid[2]][s.pos]
  ELSE IF sid[1] = "token" THEN ReadContext(sid[2], 0, reads[sid[2]].token)
  ELSE writes[sid[2]]

Running(sid, k) == k \in 1..Len(subs[sid]) /\ subs[sid][k].status = "run"

InStage(sid, k, stage) ==
  /\ Running(sid, k)
  /\ Context(sid, subs[sid][k]).pipeline[subs[sid][k].stage] = stage

\* The index of the first asynchronous stage at or after index k, or Len + 1.
RECURSIVE FirstAsync(_, _)
FirstAsync(pipeline, k) ==
  IF k > Len(pipeline) \/ pipeline[k] \in AsyncStages
    THEN k
    ELSE FirstAsync(pipeline, k + 1)

\* Subscription s of stream sid stands before the stage s.stage of its current
\* stream: the synchronous stages run, up to the next asynchronous stage.  When
\* the stream completes, concatAll subscribes to the next stream of the
\* asyncQueue (a drain), or concatMap takes the next value of the write's
\* request (a write: pos counts the values taken before), or the subscription
\* is done.  The result is the
\* subscription it ends in and the synchronous stages that ran, each with its
\* context.
RECURSIVE Run(_, _, _)
Run(sid, s, ran) ==
  LET c == Context(sid, s)
      n == FirstAsync(c.pipeline, s.stage)
      now == ran \cup {<<c.pipeline[j], c>> : j \in s.stage..(n - 1)}
  IN IF n <= Len(c.pipeline)
       THEN [sub |-> [s EXCEPT !.stage = n], ran |-> now]
     ELSE IF \/ sid[1] = "drain" /\ s.pos < Len(asyncQueues[sid[2]])
             \/ sid[1] = "write" /\ s.pos + 1 < writes[sid[2]].emissions
       THEN Run(sid, [s EXCEPT !.pos = s.pos + 1, !.stage = 1], now)
     ELSE [sub |-> [s EXCEPT !.stage = n, !.status = "done"], ran |-> now]

\* A new subscription.  Observable.from(asyncQueue).concatAll() of an empty
\* queue completes at once.
Subscribed(sid) ==
  IF sid[1] = "drain" /\ asyncQueues[sid[2]] = << >>
    THEN [sub |-> [pos |-> 0, stage |-> 0, status |-> "done"], ran |-> {}]
    ELSE Run(sid, [pos |-> IF sid[1] = "drain" THEN 1 ELSE 0, stage |-> 1,
                   status |-> "run"], {})

\* The CUD entry bufferCUDResponse pushes when the write's request emits v.
\* (eid, wid and wsub only name the entry, the write and its subscription.)
CUDEntry(w, k, eid) ==
  [kind |-> "CUD", tableName |-> w.tableName,
   method |-> IF w.method \in {"create", "update"} THEN "upsert" ELSE w.method,
   value |-> IF w.method = "delete" THEN w.clause ELSE w.v,
   eid |-> eid, wid |-> w.wid, wsub |-> k]

\* The record of one applied store operation: the subscription that ran it and
\* the asyncQueue element it belongs to (0 outside a drain).
Applied(sid, k, s) == [sid |-> sid, k |-> k, pos |-> s.pos]

\* The operation a record of the store's log stands for.
Operation(a) == Context(a.sid, [pos |-> a.pos])

\* The state after subscription k of stream sid has become r.sub and the
\* synchronous stages r.ran have run:
\*   set : requestMap.set(cacheKey, true)
\*   get : in a drain, the do of persist forwards the selector into the read's
\*         placeholder channel
\*   push: bufferCUDResponse pushes the CUD entry
Effects(sid, k, r) ==
  LET sets == {CacheKeyOf(reads[e[2].rid].result) : e \in {x \in r.ran : x[1] = "set"}}
      gets == {e[2] : e \in {x \in r.ran : x[1] = "get"}}
      pushes == {e[2] : e \in {x \in r.ran : x[1] = "push"}}
  IN /\ subs' = [subs EXCEPT ![sid] =
                   IF k > Len(@) THEN Append(@, r.sub) ELSE [@ EXCEPT ![k] = r.sub]]
     /\ requestMap' = requestMap \cup sets
     /\ reads' = IF sid[1] = "drain"
                   THEN [rid \in 1..Len(reads) |->
                          IF \E c \in gets : c.rid = rid
                            THEN [reads[rid] EXCEPT !.cacheControl =
                                    Append(@, <<"Selector",
                                              (CHOOSE c \in gets : c.rid = rid).database>>)]
                            ELSE reads[rid]]
                   ELSE reads
     /\ IF pushes # {}
          THEN /\ persistedDataBuffer' =
                    Append(persistedDataBuffer,
                           CUDEntry(CHOOSE c \in pushes : TRUE, k, pushed + 1))
               /\ pushed' = pushed + 1
          ELSE UNCHANGED <<persistedDataBuffer, pushed>>

(***************************************************************************)
(* The state machine.                                                      *)
(***************************************************************************)
EmptyMap == [u \in {} |-> 0]
NoDelivery ==
  [rid |-> 0, selected |-> << >>, mapped |-> FALSE, calls |-> << >>, upserts |-> << >>,
   data |-> << >>, emits |-> FALSE]
ProxySelector == <<"ProxySelector">>

Init ==
  /\ database = None
  /\ persistedDataBuffer = << >>
  /\ requestMap = {}
  /\ FetchStack = EmptyMap
  /\ dists = << >>
  /\ reads = << >>
  /\ writes = << >>
  /\ asyncQueues = << >>
  /\ subs = [sid \in StreamIds |-> << >>]
  /\ subscribed = 0
  /\ store = [d \in Databases |-> << >>]
  /\ pushed = 0
  /\ sockets = 0
  /\ thrown = 0
  /\ delivery = NoDelivery

Issued == Len(reads) + Len(writes) + sockets + thrown

\* A read through an api method: request = sdkFetch.get(path, query), then
\* net.lift({ request, query, tableName, cacheValidate }) -> handleApiResult.
\* bufferResponse and handleRequestCache start with getInfoFromResult, which
\* throws for a table that no schema declares: the get call has been made, the
\* engine is as it was.
ApiRead(path, tableName, query, cacheValidate, required, padding) ==
  LET urlWithQuery == BuildQuery(urlWithPath(path), query)
      stack == FetchStackAfterGet(urlWithQuery)
      result == [request |-> stack[urlWithQuery], query |-> query,
                 tableName |-> tableName, cacheValidate |-> cacheValidate,
                 required |-> required, padding |-> padding,
                 assocFields |-> Undefined, excludeFields |-> {}]
      rid == Len(reads) + 1
  IN /\ Issued < MaxOps
     /\ FetchStack' = stack
     /\ dists' = IF urlWithQuery \in DOMAIN FetchStack
                   THEN dists ELSE Append(dists, urlWithQuery)
     /\ IF ~IsDefinedTable(tableName)
          THEN /\ thrown' = thrown + 1
               /\ UNCHANGED <<reads, persistedDataBuffer, pushed>>
        ELSE IF database = None
          THEN \* bufferResponse
               /\ reads' = Append(reads, [result |-> result, token |-> BufferToken,
                                          cacheControl |-> <<ProxySelector>>,
                                          seenAtIssue |-> requestMap])
               /\ persistedDataBuffer' =
                    Append(persistedDataBuffer,
                           [kind |-> "Selector", realSelectorInfo |-> result,
                            proxySelector |-> rid, eid |-> pushed + 1])
               /\ pushed' = pushed + 1
               /\ UNCHANGED thrown
          ELSE /\ reads' = Append(reads, [result |-> result,
                                          token |-> handleRequestCache(database, result),
                                          cacheControl |-> << >>,
                                          seenAtIssue |-> requestMap])
               /\ UNCHANGED <<persistedDataBuffer, pushed, thrown>>
     /\ UNCHANGED <<database, requestMap, writes, asyncQueues, subs, subscribed, store,
                    sockets, delivery>>

\* The stream lift returns for a write, by the engine's state at the call.
\*   unattached (bufferCUDResponse): request.do(push the CUD entry)
\*   attached (handleCUDAResult)   : request -> concatMap(store operation)
\* emissions is the number of values the write's request emits to a subscriber.
\* handleCUDAResult that hands each value on without a store operation.
handleCUDAResult_NoStoreOp(method, tableName, row, emissions) ==
  [kind |-> "CUDApi", eid |-> 0, rid |-> 0, wid |-> Len(writes) + 1, wsub |-> 0,
   database |-> database,
   op |-> IF method = "delete" THEN "delete" ELSE "upsert",
   tableName |-> tableName,
   value |-> IF method = "delete" THEN <<"where", "_id", <<"id", row>>>> ELSE <<"row", row>>,
   pipeline |-> IF database = None THEN <<"request", "push">> ELSE <<"request">>,
   method |-> method,
   clause |-> IF method = "create" THEN << >> ELSE <<"where", "_id", <<"id", row>>>>,
   v |-> <<"row", row>>, emissions |-> emissions]

handleCUDAResult(method, tableName, row, emissions) ==
  [kind |-> "CUDApi", eid |-> 0, rid |-> 0, wid |-> Len(writes) + 1, wsub |-> 0,
   database |-> database,
   op |-> IF method = "delete" THEN "delete" ELSE "upsert",
   tableName |-> tableName,
   value |-> IF method = "delete" THEN <<"where", "_id", <<"id", row>>>> ELSE <<"row", row>>,
   pipeline |-> IF database = None THEN <<"request", "push">> ELSE <<"request", "store">>,
   method |-> method,
   clause |-> IF method = "create" THEN << >> ELSE <<"where", "_id", <<"id", row>>>>,
   v |-> <<"row", row>>, emissions |-> emissions]

\* A write through an api method: net.lift({ request, tableName, method, clause }).
ApiWrite(method, tableName, row, emissions) ==
  /\ Issued < MaxOps
  /\ writes' = Append(writes, handleCUDAResult(method, tableName, row, emissions))
  /\ UNCHANGED <<database, persistedDataBuffer, requestMap, FetchStack, dists, reads,
                 asyncQueues, subs, subscribed, store, pushed, sockets, thrown, delivery>>

bufferSocketPush(arg, socketMessage, pkName, type) ==
  /\ Issued < MaxOps
  /\ persistedDataBuffer' =
       Append(persistedDataBuffer,
              [kind |-> "SocketCUD", arg |-> arg, socketMessage |-> socketMessage,
               pkName |-> pkName, type |-> type, eid |-> pushed + 1])
  /\ pushed' = pushed + 1
  /\ sockets' = sockets + 1
  /\ UNCHANGED <<database, requestMap, FetchStack, dists, reads, writes, asyncQueues,
                 subs, subscribed, store, thrown, delivery>>

persist(db) ==
  LET attached == IF database = None THEN db ELSE database
  IN /\ Len(asyncQueues) < MaxPersist
     /\ database' = attached
     /\ asyncQueues' = Append(asyncQueues, AsyncQueue(persistedDataBuffer, db, attached))
     /\ persistedDataBuffer' = << >>
     /\ UNCHANGED <<requestMap, FetchStack, dists, reads, writes, subs, subscribed,
                    store, pushed, sockets, thrown, delivery>>

\* The caller subscribes to a stream: the one a persist call returned, the
\* selector$ of a token (a read issued while attached), or the one lift returned
\* for a write.
SubscribeTo(sid) ==
  /\ Exists(sid)
  /\ subscribed' = subscribed + 1
  /\ Effects(sid, Len(subs[sid]) + 1, Subscribed(sid))
  /\ UNCHANGED <<database, FetchStack, dists, writes, asyncQueues, store, sockets, thrown, delivery>>

Subscribe(sid) == subscribed < MaxSubs /\ SubscribeTo(sid)

\* finalize of the stream of SDKFetch.get, for the subscription of a read.
Finalized(sid, s) ==
  IF sid[1] = "write"
    THEN FetchStack
    ELSE FetchStackDelete(dists[reads[Context(sid, s).rid].result.request])

\* The subscription after its stage in flight has ended well.
Advanced(sid, s) == Run(sid, [s EXCEPT !.stage = s.stage + 1], {})

\* The transport answers the request of a subscription: next, then complete.
ResponseArrives(sid, k) ==
  /\ InStage(sid, k, "request")
  /\ FetchStack' = Finalized(sid, subs[sid][k])
  /\ Effects(sid, k, Advanced(sid, subs[sid][k]))
  /\ UNCHANGED <<database, dists, writes, asyncQueues, subscribed, store, sockets, thrown, delivery>>

\* The transport fails the request of a subscription.
RequestFails(sid, k) ==
  /\ InStage(sid, k, "request")
  /\ FetchStack' = Finalized(sid, subs[sid][k])
  /\ subs' = [subs EXCEPT ![sid][k].status = "error"]
  /\ UNCHANGED <<database, persistedDataBuffer, requestMap, dists, reads, writes,
                 asyncQueues, subscribed, store, pushed, sockets, thrown, delivery>>

\* The store operation of a subscription is executed and emits its result.  The
\* store has the tables of the schemas: an operation on another table fails.
StoreOpDone(sid, k) ==
  /\ InStage(sid, k, "store")
  /\ IsDefinedTable(Context(sid, subs[sid][k]).tableName)
  /\ LET c == Context(sid, subs[sid][k])
     IN store' = [store EXCEPT ![c.database] = Append(@, Applied(sid, k, subs[sid][k]))]
  /\ Effects(sid, k, Advanced(sid, subs[sid][k]))
  /\ UNCHANGED <<database, FetchStack, dists, writes, asyncQueues, subscribed, sockets, thrown, delivery>>

\* The store operation of a subscription fails.
StoreOpFails(sid, k) ==
  /\ InStage(sid, k, "store")
  /\ subs' = [subs EXCEPT ![sid][k].status = "error"]
  /\ UNCHANGED <<database, persistedDataBuffer, requestMap, FetchStack, dists, reads,
                 writes, asyncQueues, subscribed, store, pushed, sockets, thrown, delivery>>

SocketMethods == {"new", "change", "destroy", "remove", "refresh"}
\* A message names its row in id, or has no id ("") and names it in data.
SocketMessages ==
  [id : Rows \cup {""}, method : SocketMethods, data : {<<"row", r>> : r \in Rows}]
\* The record type is read for a change message only.
SocketTypes(socketMessage) ==
  IF socketMessage.method = "change" THEN {"customfield", "event"} ELSE {"customfield"}

\* The reads the callers issue: ReuseRequest reads of two queries, and an
\* AlwaysRefetch read whose query object differs from Qa by a property that is
\* undefined, so that it has the cache key and the url of Qa.
Qa == << <<"_projectId", "p1">> >>
QaU == << <<"_projectId", "p1">>, <<"type", Undefined>> >>
Qb == << <<"_projectId", "p2">> >>
ReadInputs ==
  { <<Qa, CacheStrategy_Request, RequiredName, PaddingById>>,
    <<Qb, CacheStrategy_Request, NotGiven, NotGiven>>,
    <<QaU, CacheStrategy_Cache, RequiredName, PaddingById>> }

Next ==
  \/ \E path \in Paths, tableName \in TableNames, in \in ReadInputs :
       ApiRead(path, tableName, in[1], in[2], in[3], in[4])
  \/ \E method \in {"create", "update", "delete"}, tableName \in TableNames, row \in Rows :
       ApiWrite(method, tableName, row, 1)
  \/ \E m \in SocketMessages : \E type \in SocketTypes(m) :
       bufferSocketPush("CustomField", m, "_id", type)
  \/ \E db \in Databases : persist(db)
  \/ \E sid \in StreamIds : Subscribe(sid)
  \/ \E sid \in StreamIds : \E k \in 1..Len(subs[sid]) : ResponseArrives(sid, k)
  \/ \E sid \in StreamIds : \E k \in 1..Len(subs[sid]) : RequestFails(sid, k)
  \/ \E sid \in StreamIds : \E k \in 1..Len(subs[sid]) : StoreOpDone(sid, k)
  \/ \E sid \in StreamIds : \E k \in 1..Len(subs[sid]) : StoreOpFails(sid, k)

Spec == Init /\ [][Next]_vars

\* The read path alone: writes and pushes change neither requestMap nor the
\* pipeline of any read, and a persist call on an attached engine whose buffer
\* is empty only returns an empty stream.
\* The databases are interchangeable: the one attach takes the first.
Attach(db) == database = None /\ persist(db)
FirstDatabase == CHOOSE d \in Databases : TRUE

NextRead ==
  \/ \E path \in Paths, in \in ReadInputs :
       ApiRead(path, "CustomField", in[1], in[2], in[3], in[4])
  \/ Attach(FirstDatabase)
  \/ \E sid \in StreamIds : Subscribe(sid)
  \/ \E sid \in StreamIds : \E k \in 1..Len(subs[sid]) : ResponseArrives(sid, k)
  \/ \E sid \in StreamIds : \E k \in 1..Len(subs[sid]) : RequestFails(sid, k)
  \/ \E sid \in StreamIds : \E k \in 1..Len(subs[sid]) : StoreOpDone(sid, k)
  \/ \E sid \in StreamIds : \E k \in 1..Len(subs[sid]) : StoreOpFails(sid, k)

SpecRead == Init /\ [][NextRead]_vars

\* The selector of read r hands a result set to the read's consumer.  A
\* buffered read has a store-backed selector once the drain has pushed one into
\* its channel, and its token carries validate (bufferResponse); an attached
\* read has one once its selector$ has emitted, and its token carries validate
\* in the Request branches of handleRequestCache only.
HasSelector(r) ==
  IF reads[r].token.branch = "buffer"
    THEN Len(reads[r].cacheControl) > 1
    ELSE \E k \in 1..Len(subs[<<"token", r>>]) : subs[<<"token", r>>][k].status = "done"

Values(r, data) ==
  /\ r \in 1..Len(reads)
  /\ HasSelector(r)
  /\ LET mapped == reads[r].token.validate
         v == IF mapped THEN validate(reads[r].result, data, database)
                        ELSE [calls |-> << >>, upserts |-> << >>, data |-> data,
                              emits |-> TRUE]
     IN delivery' = [rid |-> r, selected |-> data, mapped |-> mapped, calls |-> v.calls,
                     upserts |-> v.upserts, data |-> v.data, emits |-> v.emits]
  /\ UNCHANGED <<database, persistedDataBuffer, requestMap, FetchStack, dists, reads,
                 writes, asyncQueues, subs, subscribed, store, pushed, sockets, thrown>>

\* Reads, before and after attachment, and what their consumers are handed.
NextPad ==
  \/ \E path \in Paths, in \in ReadInputs :
       ApiRead(path, "CustomField", in[1], in[2], in[3], in[4])
  \/ Attach(FirstDatabase)
  \/ \E sid \in StreamIds : Subscribe(sid)
  \/ \E sid \in StreamIds : \E k \in 1..Len(subs[sid]) : ResponseArrives(sid, k)
  \/ \E sid \in StreamIds : \E k \in 1..Len(subs[sid]) : StoreOpDone(sid, k)
  \/ \E r \in 1..MaxOps, data \in DataSets : Values(r, data)

SpecPad == Init /\ [][NextPad]_vars

\* The drain of what is buffered before attachment: reads, writes and pushes
\* issued while no store is attached, one persist call, and the subscriptions of
\* the stream it returns and of the writes' streams.
BufferedRead(path, query, cacheValidate) ==
  database = None /\ ApiRead(path, "CustomField", query, cacheValidate, NotGiven, NotGiven)
BufferedWrite(method, row) == database = None /\ ApiWrite(method, "CustomField", row, 1)
BufferedPush(arg, socketMessage, pkName, type) ==
  database = None /\ bufferSocketPush(arg, socketMessage, pkName, type)
SubscribeBuffered(sid) == sid[1] # "token" /\ Subscribe(sid)

\* One read, and one write and one push of each store operation a queue
\* element can be: an upsert, a delete, a dirty-field merge.
DrainReads == {<<Qa, CacheStrategy_Request>>}
DrainWrites == {"create", "delete"}
DrainPushes ==
  {<<m, type>> \in SocketMessages \X {"customfield", "event"} :
     /\ m.id # ""
     /\ \/ m.method \in {"new", "destroy"} /\ type = "customfield"
        \/ m.method = "change" /\ type = "event"}

NextDrain ==
  \/ \E path \in Paths, in \in DrainReads : BufferedRead(path, in[1], in[2])
  \/ \E method \in DrainWrites, row \in Rows : BufferedWrite(method, row)
  \/ \E p \in DrainPushes : BufferedPush("CustomField", p[1], "_id", p[2])
  \/ Attach(FirstDatabase)
  \/ \E sid \in StreamIds : SubscribeBuffered(sid)
  \/ \E sid \in StreamIds : \E k \in 1..Len(subs[sid]) : ResponseArrives(sid, k)
  \/ \E sid \in StreamIds : \E k \in 1..Len(subs[sid]) : RequestFails(sid, k)
  \/ \E sid \in StreamIds : \E k \in 1..Len(subs[sid]) : StoreOpDone(sid, k)
  \/ \E sid \in StreamIds : \E k \in 1..Len(subs[sid]) : StoreOpFails(sid, k)

SpecDrain == Init /\ [][NextDrain]_vars

(***************************************************************************)
(* What the properties speak of.                                           *)
(***************************************************************************)
Range(f) == {f[i] : i \in DOMAIN f}

\* A resolution: one subscription of a token's stream (pos 0), of a write's
\* stream at a value of its request (pos 0 the first), or of a drain at an
\* element of its queue that it has subscribed to.  A record of a store's log names the resolution it is of.
Resolutions ==
  UNION {UNION {{[sid |-> sid, k |-> k, pos |-> p] :
                   p \in IF sid[1] = "drain" THEN 1..subs[sid][k].pos
                         ELSE 0..subs[sid][k].pos} :
                k \in 1..Len(subs[sid])} : sid \in StreamIds}

\* The stage a resolution stands at, Len + 1 once its stream has completed.
StageOf(rho) ==
  LET s == subs[rho.sid][rho.k]
  IN IF rho.pos < s.pos \/ s.status = "done"
       THEN Len(Operation(rho).pipeline) + 1
       ELSE s.stage

Completed(rho) == StageOf(rho) > Len(Operation(rho).pipeline)
Failed(rho) == ~Completed(rho) /\ subs[rho.sid][rho.k].status = "error"

\* The resolution has handed a request to the transport / has been answered.
TransportCall(rho) == "request" \in Range(Operation(rho).pipeline)
Responded(rho) ==
  /\ TransportCall(rho)
  /\ Operation(rho).pipeline[1] = "request"
  /\ StageOf(rho) > 1

\* The records of the stores' logs, and those of one resolution.
LogRecords == UNION {{<<db, i>> : i \in 1..Len(store[db])} : db \in Databases}
RecordsOf(rho) == {l \in LogRecords : store[l[1]][l[2]] = rho}

\* The resolutions of the reads R.
ResolutionsOf(R) ==
  {rho \in Resolutions : Operation(rho).kind = "Selector" /\ Operation(rho).rid \in R}

IsStrategy(r, strategy) == reads[r].result.cacheValidate = strategy

\* How often the buffered operation with entry number e has been executed.
Times(e) == Cardinality({l \in LogRecords : Operation(store[l[1]][l[2]]).eid = e})

\* C1: every operation buffered before attachment is executed against the store
\* exactly once, however many subscriptions the stream persist returned has: never
\* twice, and once when a subscription of that stream has completed.
C1_BufferedOpsRunExactlyOnce ==
  \A d \in 1..Len(asyncQueues) : \A i \in 1..Len(asyncQueues[d]) :
    /\ Times(asyncQueues[d][i].eid) <= 1
    /\ (\E k \in 1..Len(subs[<<"drain", d>>]) : subs[<<"drain", d>>][k].status = "done")
         => Times(asyncQueues[d][i].eid) = 1

\* C2: a subscription of the stream persist returned executes the buffered
\* operations in insertion order: of two operations of the stream, of any kinds,
\* the one inserted later is started only when the one inserted earlier has
\* finished, and the store's log has them in that order.
C2_DrainInInsertionOrder ==
  /\ \A d \in 1..Len(asyncQueues) : \A k \in 1..Len(subs[<<"drain", d>>]) :
       LET s == subs[<<"drain", d>>][k]
       IN \A i, j \in 1..Len(asyncQueues[d]) :
            (asyncQueues[d][i].eid < asyncQueues[d][j].eid /\ j <= s.pos)
              => (i < s.pos \/ s.status = "done")
  /\ \A db \in Databases : \A a, b \in 1..Len(store[db]) :
       ( /\ a < b
         /\ store[db][a].sid = store[db][b].sid
         /\ store[db][a].k = store[db][b].k
         /\ store[db][a].sid[1] = "drain" )
       => Operation(store[db][a]).eid < Operation(store[db][b]).eid

\* A subscription of a drain has executed two operations of different kinds.
C2_Witness ==
  \E d \in 1..Len(asyncQueues) : \E k \in 1..Len(subs[<<"drain", d>>]) :
    /\ subs[<<"drain", d>>][k].status = "done"
    /\ \E i, j \in 1..Len(asyncQueues[d]) :
         /\ i < j
         /\ asyncQueues[d][i].kind # asyncQueues[d][j].kind
         /\ \E l \in LogRecords : store[l[1]][l[2]] = [sid |-> <<"drain", d>>, k |-> k, pos |-> i]
         /\ \E l \in LogRecords : store[l[1]][l[2]] = [sid |-> <<"drain", d>>, k |-> k, pos |-> j]

\* C3: the buffer holds operations only while no store is attached: from the
\* first persist call on it is empty.
C3_BufferEmptyWhileAttached == database # None => persistedDataBuffer = << >>

\* C4: attachment is idempotent: once a store is attached, a step of the engine
\* keeps that store, and a later persist call is a no-op (it leaves the buffer
\* and the request cache alone and returns a stream of no operations).
C4_LaterPersistIsNoOp ==
  [][database # None =>
       /\ database' = database
       /\ Len(asyncQueues') > Len(asyncQueues) =>
            /\ persistedDataBuffer' = persistedDataBuffer
            /\ requestMap' = requestMap
            /\ asyncQueues'[Len(asyncQueues')] = << >>]_vars

\* The value a write's stream emitted has been applied to a store.
WriteApplied(rho) ==
  \/ RecordsOf(rho) # {}
  \/ \E l \in LogRecords :
       LET c == Operation(store[l[1]][l[2]])
       IN c.kind = "CUD" /\ c.wid = rho.sid[2] /\ c.wsub = rho.k

\* Nothing is in flight and nothing has failed: a store is attached, every
\* stream a persist call returned has been subscribed to, and every subscription
\* has completed.
Settled ==
  /\ database # None
  /\ \A d \in 1..Len(asyncQueues) : subs[<<"drain", d>>] # << >>
  /\ \A sid \in StreamIds : \A k \in 1..Len(subs[sid]) : subs[sid][k].status = "done"

\* C5: every write whose result stream has emitted a value is applied to the
\* store once a store is attached and the work in flight has ended, a write
\* issued before persist whose stream emits after the drain included.
C5_EmittedWritesAreApplied ==
  Settled =>
    \A rho \in Resolutions :
      (Operation(rho).kind = "CUDApi" /\ Responded(rho)) => WriteApplied(rho)

\* C6: for every read issued before attachment, once a subscription of the
\* stream persist returned has ended, the read's placeholder channel has received
\* the store-backed selector, unless the read's own fetch or upsert failed.
C6_PlaceholderReceivesSelector ==
  \A d \in 1..Len(asyncQueues) : \A k \in 1..Len(subs[<<"drain", d>>]) :
    LET s == subs[<<"drain", d>>][k]
    IN s.status # "run" =>
         \A i \in 1..Len(asyncQueues[d]) :
           (asyncQueues[d][i].kind = "Selector" /\ ~(s.status = "error" /\ s.pos = i))
             => Len(reads[asyncQueues[d][i].rid].cacheControl) > 1

\* The reads of the table and the query of read r, with its strategy.
SameRead(r) ==
  {q \in 1..Len(reads) :
     /\ reads[q].result.tableName = reads[r].result.tableName
     /\ reads[q].result.query = reads[r].result.query
     /\ reads[q].result.cacheValidate = reads[r].result.cacheValidate}

\* C8: under ReuseRequest, the same read issued twice before any response has
\* arrived makes one transport call in total.
C8_OneTransportCallInFlight ==
  \A r1, r2 \in 1..Len(reads) :
    ( /\ r1 < r2
      /\ r2 \in SameRead(r1)
      /\ IsStrategy(r1, CacheStrategy_Request)
      /\ ResolutionsOf({r1}) # {} /\ ResolutionsOf({r2}) # {}
      /\ \A rho \in ResolutionsOf(SameRead(r1)) : ~Responded(rho) /\ ~Failed(rho) )
    => Cardinality({rho \in ResolutionsOf(SameRead(r1)) : TransportCall(rho)}) = 1

\* C7: a cache key is in requestMap only when the response of a ReuseRequest
\* read with that key has been upserted into the attached store.
C7_KeySetOnlyAfterMerge ==
  \A key \in requestMap :
    \E l \in LogRecords :
      LET c == Operation(store[l[1]][l[2]])
      IN /\ l[1] = database
         /\ c.kind = "Selector" /\ c.op = "upsert"
         /\ IsStrategy(c.rid, CacheStrategy_Request)
         /\ CacheKeyOf(reads[c.rid].result) = key

\* A ReuseRequest read's fetch has been merged and its key is marked seen.
C7_Witness ==
  \E rho \in Resolutions :
    /\ Operation(rho).kind = "Selector"
    /\ IsStrategy(Operation(rho).rid, CacheStrategy_Request)
    /\ RecordsOf(rho) # {}
    /\ CacheKeyOf(reads[Operation(rho).rid].result) \in requestMap

\* A ReuseRequest read issued when its cache key was marked seen.
IssuedSeen(r) ==
  /\ IsStrategy(r, CacheStrategy_Request)
  /\ CacheKeyOf(reads[r].result) \in reads[r].seenAtIssue

C9_NoFetchOnceSeen ==
  \A r \in 1..Len(reads) :
    IssuedSeen(r) =>
      \A rho \in ResolutionsOf({r}) : ~TransportCall(rho) /\ RecordsOf(rho) = {}

\* C9: once a cache key is marked seen, a later ReuseRequest read with that key
\* makes no transport call and no fetch upsert, and the key is never unmarked.
C9_SeenKeyServedFromStore ==
  []C9_NoFetchOnceSeen /\ [][requestMap \subseteq requestMap']_vars

\* A read issued after its key was marked seen has been resolved from the store.
C9_Witness ==
  \E r \in 1..Len(reads) :
    /\ IssuedSeen(r)
    /\ \E rho \in ResolutionsOf({r}) : Completed(rho)

\* A resolution of an AlwaysRefetch read: one transport call, at most one upsert,
\* and when it has completed, one upsert into the attached store, after which (in
\* a drain) the selector read from the store has been delivered.
C10_RefetchedEachTime ==
  \A r \in 1..Len(reads) :
    IsStrategy(r, CacheStrategy_Cache) =>
      \A rho \in ResolutionsOf({r}) :
        /\ TransportCall(rho)
        /\ Cardinality(RecordsOf(rho)) <= 1
        /\ Completed(rho) =>
             /\ Cardinality(RecordsOf(rho)) = 1
             /\ \A l \in RecordsOf(rho) : l[1] = database
             /\ rho.sid[1] = "drain" => Len(reads[r].cacheControl) > 1

\* A step of a resolution of an AlwaysRefetch read leaves requestMap alone.
C10_SetsNoKey ==
  \A sid \in StreamIds : \A k \in 1..Len(subs[sid]) :
    ( /\ subs[sid][k].status = "run"
      /\ Context(sid, subs[sid][k]).kind = "Selector"
      /\ IsStrategy(Context(sid, subs[sid][k]).rid, CacheStrategy_Cache)
      /\ subs'[sid][k] # subs[sid][k] )
    => requestMap' = requestMap

\* C10: under AlwaysRefetch every issuance of a read, once subscribed, makes one
\* transport call and one store upsert followed by a store read, whether or not
\* an identical read is in flight or has completed, and sets no cache key.
C10_AlwaysRefetch == []C10_RefetchedEachTime /\ [][C10_SetsNoKey]_vars

\* Two identical AlwaysRefetch reads have each been fetched and merged.
C10_Witness ==
  \E r1, r2 \in 1..Len(reads) :
    /\ r1 < r2 /\ r2 \in SameRead(r1) /\ IsStrategy(r1, CacheStrategy_Cache)
    /\ \E rho \in ResolutionsOf({r1}) : Completed(rho) /\ RecordsOf(rho) # {}
    /\ \E rho \in ResolutionsOf({r2}) : Completed(rho) /\ RecordsOf(rho) # {}

\* The key (url with query) of the request of read r.
UrlOf(r) == dists[reads[r].result.request]

\* The resolution's request is with the transport.
InFlight(rho) ==
  LET s == subs[rho.sid][rho.k]
  IN /\ s.status = "run"
     /\ rho.pos = s.pos
     /\ Operation(rho).pipeline[s.stage] = "request"

\* C11: for SDKFetch.get at most one network call per key (url with query) is
\* in flight at any time: the subscriptions of all the callers that got the
\* key's stream share one transport invocation.
C11_OneCallInFlightPerKey ==
  \A u \in Range(dists) :
    Cardinality({rho \in Resolutions :
                   /\ Operation(rho).kind = "Selector"
                   /\ InFlight(rho)
                   /\ UrlOf(Operation(rho).rid) = u}) <= 1

\* The request of a read's resolution ends, by a response or by a failure: the
\* deduplicator then has no entry for its key.
C12_EntryRemovedAtFinish ==
  \A sid \in StreamIds : \A k \in 1..Len(subs[sid]) :
    ( /\ InStage(sid, k, "request")
      /\ Context(sid, subs[sid][k]).kind = "Selector"
      /\ subs'[sid][k] # subs[sid][k] )
    => UrlOf(Context(sid, subs[sid][k]).rid) \notin DOMAIN FetchStack'

\* A get call for a key that has no entry makes a stream of its own, shared with
\* no earlier call, and enters it.
C12_NewStreamWithoutEntry ==
  Len(reads') = Len(reads) + 1 =>
    LET request == reads'[Len(reads')].result.request
        u == dists'[request]
    IN u \notin DOMAIN FetchStack =>
         /\ request = Len(dists) + 1
         /\ \A r \in 1..Len(reads) : reads[r].result.request # request
         /\ u \in DOMAIN FetchStack' /\ FetchStack'[u] = request

\* C12: the deduplicator's entry for a key is removed when a request for it
\* finishes, by success and by failure alike, so a get call made after that
\* gets a new stream and with it a new transport invocation: a failed fetch is
\* retriable.
C12_EntryClearedOnFinish ==
  [][C12_EntryRemovedAtFinish /\ C12_NewStreamWithoutEntry]_vars

\* A read whose request failed, and a later read of the same key with a request
\* of its own that has been handed to the transport.
C12_Witness ==
  \E r1, r2 \in 1..Len(reads) :
    /\ r1 < r2 /\ UrlOf(r1) = UrlOf(r2)
    /\ reads[r1].result.request # reads[r2].result.request
    /\ \E rho \in ResolutionsOf({r1}) : Failed(rho) /\ StageOf(rho) = 1
    /\ \E rho \in ResolutionsOf({r2}) : TransportCall(rho)

\* C13: when an operation of the drain fails, the operations after it in the
\* batch are still applied to the store: a subscription of the drain that has
\* ended has applied every operation but the failed one.
C13_DrainContinuesAfterError ==
  \A d \in 1..Len(asyncQueues) : \A k \in 1..Len(subs[<<"drain", d>>]) :
    LET s == subs[<<"drain", d>>][k]
    IN s.status # "run" =>
         \A i \in 1..Len(asyncQueues[d]) :
           ("store" \in Range(asyncQueues[d][i].pipeline)
              /\ ~(s.status = "error" /\ s.pos = i))
             => \E l \in LogRecords :
                  store[l[1]][l[2]] = [sid |-> <<"drain", d>>, k |-> k, pos |-> i]

\* C20: the drain started by persist ends by completing, never by an error, and
\* the engine is then attached.
C20_DrainNeverErrors ==
  \A d \in 1..Len(asyncQueues) : \A k \in 1..Len(subs[<<"drain", d>>]) :
    /\ subs[<<"drain", d>>][k].status # "error"
    /\ subs[<<"drain", d>>][k].status = "done" => database # None

\* Pushes alone: messages of every method, with and without an id, buffered
\* before attachment, the persist call, and the subscriptions of the stream it
\* returns.
SubscribeDrain(sid) == sid[1] = "drain" /\ Subscribe(sid)

NextPush ==
  \/ \E m \in SocketMessages : \E type \in SocketTypes(m) :
       BufferedPush("CustomField", m, "_id", type)
  \/ Attach(FirstDatabase)
  \/ \E sid \in StreamIds : SubscribeDrain(sid)
  \/ \E sid \in StreamIds : \E k \in 1..Len(subs[sid]) : StoreOpDone(sid, k)
  \/ \E sid \in StreamIds : \E k \in 1..Len(subs[sid]) : StoreOpFails(sid, k)

SpecPush == Init /\ [][NextPush]_vars

\* The element of the asyncQueue q made from the buffer entry numbered eid.
ElementsOf(q, eid) == {i \in 1..Len(q) : q[i].eid = eid}

\* The store operation the dispatch rules name for a buffered push v, with
\* the clause of a delete given: [op, tableName, value], or nothing for a method
\* the rules do not name.
Dispatched(v, clause) ==
  LET m == v.socketMessage
  IN IF m.method \in {"destroy", "remove"}
       THEN {[op |-> "delete", tableName |-> v.arg, value |-> clause]}
     ELSE IF m.method = "new"
       THEN {[op |-> "upsert", tableName |-> v.arg, value |-> m.data]}
     ELSE IF m.method = "change"
       THEN IF Dirty_handleSocketMessage(m.id, v.type, m.data, None) # NullStream
              THEN {[op |-> "dirty", tableName |-> v.arg,
                     value |-> Dirty_handleSocketMessage(m.id, v.type, m.data, None)]}
              ELSE {[op |-> "upsert", tableName |-> v.arg,
                     value |-> <<"merge", m.data, v.pkName, m.id>>]}
     ELSE {}

\* A persist call turns every buffered push into the one operation Dispatched
\* names for it, on the stream it returns.
PushesDispatched(Clause(_)) ==
  Len(asyncQueues') = Len(asyncQueues) + 1 =>
    \A n \in 1..Len(persistedDataBuffer) :
      LET v == persistedDataBuffer[n]
          q == asyncQueues'[Len(asyncQueues')]
      IN v.kind = "SocketCUD" =>
           /\ Cardinality(ElementsOf(q, v.eid)) = Cardinality(Dispatched(v, Clause(v)))
           /\ \A i \in ElementsOf(q, v.eid) :
                [op |-> q[i].op, tableName |-> q[i].tableName, value |-> q[i].value]
                  \in Dispatched(v, Clause(v))

ClauseById(v) == <<"where", v.pkName, <<"id", v.socketMessage.id>>>>
ClauseByIdOrData(v) ==
  <<"where", v.pkName,
    IF v.socketMessage.id # "" THEN <<"id", v.socketMessage.id>> ELSE v.socketMessage.data>>

\* C16: each push message is resolved into the store operation the dispatch
\* rules name: destroy or remove gives a delete on the target table matching
\* primary-key field = push id, new an upsert of the payload, change the
\* dirty-field handler's stream when there is one and otherwise an upsert of the
\* payload with the primary-key field set to the push id.
C16_PushDispatch == [][PushesDispatched(ClauseById)]_vars

\* C16 as amended: the delete of a destroy or remove message matches
\* primary-key field = push id when the message has an id, and primary-key
\* field = payload when it has none.
C16_PushDispatchIdOrPayload == [][PushesDispatched(ClauseByIdOrData)]_vars

\* The delete of a destroy message without an id has been executed.
C16_Witness ==
  \E l \in LogRecords :
    LET c == Operation(store[l[1]][l[2]])
    IN /\ c.kind = "SocketCUD" /\ c.op = "delete"
       /\ c.value[3][1] # "id"

\* No read and no write for a table that no schema declares has been accepted:
\* lift has thrown instead.
C17_NoneAccepted ==
  /\ \A r \in 1..Len(reads) : IsDefinedTable(reads[r].result.tableName)
  /\ \A w \in 1..Len(writes) : IsDefinedTable(writes[w].tableName)

\* C17: a read or a write issued for a table name that no schema declares
\* throws at issuance, unattached and attached, and the call that throws leaves
\* the buffer, the request cache and the store as they were.
C17_UndeclaredTableThrows ==
  /\ []C17_NoneAccepted
  /\ [][thrown' # thrown
          => UNCHANGED <<persistedDataBuffer, requestMap, store, database>>]_vars

\* Writes issued before attachment, each stream (a write's, a drain's)
\* subscribed to once, and persist calls.
SubscribeOnce(sid) == sid[1] # "token" /\ subs[sid] = << >> /\ SubscribeTo(sid)

NextWrites ==
  \/ \E method \in {"create", "update", "delete"}, row \in Rows : BufferedWrite(method, row)
  \/ \E db \in Databases : persist(db)
  \/ \E sid \in StreamIds : SubscribeOnce(sid)
  \/ \E sid \in StreamIds : \E k \in 1..Len(subs[sid]) : ResponseArrives(sid, k)
  \/ \E sid \in StreamIds : \E k \in 1..Len(subs[sid]) : RequestFails(sid, k)
  \/ \E sid \in StreamIds : \E k \in 1..Len(subs[sid]) : StoreOpDone(sid, k)
  \/ \E sid \in StreamIds : \E k \in 1..Len(subs[sid]) : StoreOpFails(sid, k)

SpecWrites == Init /\ [][NextWrites]_vars

\* The row a store operation is about.
RowOf(c) ==
  IF c.op = "delete" THEN c.value[3][2]
  ELSE IF c.value[1] = "row" THEN c.value[2]
  ELSE IF c.value[1] = "merge" THEN c.value[4]
  ELSE c.value[2]

\* The row is in the store: the last operation applied to it is no delete.
Present(db, row) ==
  LET about == {i \in 1..Len(store[db]) : RowOf(Operation(store[db][i])) = row}
  IN /\ about # {}
     /\ Operation(store[db][CHOOSE i \in about : \A j \in about : j <= i]).op # "delete"

\* Write w was issued before attachment and its one emission is in the
\* asyncQueue of the first persist call.
DrainedAtAttachment(w) ==
  /\ "push" \in Range(writes[w].pipeline)
  /\ Len(subs[<<"write", w>>]) = 1
  /\ Len(asyncQueues) >= 1
  /\ \E i \in 1..Len(asyncQueues[1]) :
       asyncQueues[1][i].kind = "CUD" /\ asyncQueues[1][i].wid = w

\* C18: of two writes on one row issued before attachment, W1 an upsert and W2 a
\* delete, in whatever order their streams emitted before attachment: the row is
\* absent from the store after attachment and drain.
C18_DeleteAfterUpsertWins ==
  \A w1, w2 \in 1..Len(writes) :
    ( /\ w1 < w2
      /\ writes[w1].method \in {"create", "update"} /\ writes[w2].method = "delete"
      /\ RowOf(writes[w1]) = RowOf(writes[w2])
      /\ DrainedAtAttachment(w1) /\ DrainedAtAttachment(w2)
      /\ Len(subs[<<"drain", 1>>]) = 1 /\ subs[<<"drain", 1>>][1].status = "done" )
    => ~Present(database, RowOf(writes[w1]))

\* C19: the placeholder channel of a read issued before attachment starts on
\* its placeholder and is redirected to a store-backed selector once: no later
\* persist call and no further subscription of a drain stream pushes another
\* selector into it.
C19_RedirectedOnce ==
  \A r \in 1..Len(reads) :
    reads[r].token.branch = "buffer" =>
      /\ reads[r].cacheControl[1] = ProxySelector
      /\ Len(reads[r].cacheControl) <= 2

\* The records of a result set that lack a field the read requires.
Incomplete(r, data) ==
  {i \in 1..Len(data) :
     /\ reads[r].result.required[1] = "array"
     /\ \E j \in 1..Len(reads[r].result.required[2]) :
          data[i][reads[r].result.required[2][j]] = Undefined}

\* How often x occurs in the sequence seq.
Occurrences(seq, x) == Cardinality({i \in 1..Len(seq) : seq[i] = x})

\* C14: of a result set handed to a consumer, each record missing a required
\* field gets exactly one padding call with its primary key and, when the
\* padding yields a record, exactly one upsert of it and its fields merged
\* into the record handed on; a complete record gets neither.
C14_PaddedExactlyOnce ==
  delivery.rid # 0 /\ reads[delivery.rid].result.padding[1] = "function" =>
    \A i \in 1..Len(delivery.selected) :
      LET datum == delivery.selected[i]
          patch == Patch(reads[delivery.rid].result.padding, datum._id)[1]
      IN IF i \in Incomplete(delivery.rid, delivery.selected)
           THEN /\ Occurrences(delivery.calls, datum._id) = 1
                /\ IF patch # Null
                     THEN /\ Cardinality({u \in 1..Len(delivery.upserts) :
                                            delivery.upserts[u].value = patch}) = 1
                          /\ delivery.data[i] = Assign(datum, patch)
                     ELSE delivery.data[i] = datum
           ELSE /\ Occurrences(delivery.calls, datum._id) = 0
                /\ delivery.data[i] = datum

\* C15: a result set with a record missing a required field has padding
\* applied to it, whatever the read's strategy, whether the read fetched or was
\* served from the store, and whether it was issued before or after attachment.
C15_PaddingWhateverTheStrategy ==
  delivery.rid # 0 /\ reads[delivery.rid].result.padding[1] = "function"
                   /\ Incomplete(delivery.rid, delivery.selected) # {} =>
    delivery.calls # << >>
\* The CUD entries write w has added to the buffer so far, by entry number:
\* those still in the buffer and those a persist call has moved to a queue.
EntriesOf(w) ==
  {e \in 1..pushed :
     \/ \E i \in 1..Len(persistedDataBuffer) :
          /\ persistedDataBuffer[i].kind = "CUD"
          /\ persistedDataBuffer[i].eid = e /\ persistedDataBuffer[i].wid = w
     \/ \E q \in 1..Len(asyncQueues) : \E i \in 1..Len(asyncQueues[q]) :
          /\ asyncQueues[q][i].kind = "CUD"
          /\ asyncQueues[q][i].eid = e /\ asyncQueues[q][i].wid = w}

\* A CUD entry of the buffer has the operation kind and the value of its write.
EntryOfWrite(entry) ==
  LET w == writes[entry.wid]
  IN IF w.method = "delete"
       THEN entry.method = "delete" /\ entry.value = w.clause
       ELSE entry.method = "upsert" /\ entry.value = w.v

\* C21: a write issued before attachment, whose result stream carries one
\* value, adds one entry to the buffer for that value however often the
\* returned stream is subscribed to: never more than one, and one once the value
\* has been emitted; the entry is an upsert of the value for create and update,
\* a delete with the match clause for delete.
C21_OneEntryPerEmission ==
  /\ \A i \in 1..Len(persistedDataBuffer) :
       persistedDataBuffer[i].kind = "CUD" => EntryOfWrite(persistedDataBuffer[i])
  /\ \A w \in 1..Len(writes) :
       "push" \in Range(writes[w].pipeline) =>
         /\ Cardinality(EntriesOf(w)) <= 1
         /\ (\E k \in 1..Len(subs[<<"write", w>>]) :
               Responded([sid |-> <<"write", w>>, k |-> k, pos |-> 0]))
              => Cardinality(EntriesOf(w)) = 1
\* Writes issued while a store is attached, their requests emitting one value
\* or two, and the subscriptions of their streams.
WriteEmissions == {1, 2}
AttachedMethods == {"update", "delete"}
AttachedWrite(method, row, emissions) ==
  database # None /\ ApiWrite(method, "CustomField", row, emissions)

NextAttached ==
  \/ Attach(FirstDatabase)
  \/ \E method \in AttachedMethods, row \in Rows, n \in WriteEmissions :
       AttachedWrite(method, row, n)
  \/ \E sid \in StreamIds : Subscribe(sid)
  \/ \E sid \in StreamIds : \E k \in 1..Len(subs[sid]) : ResponseArrives(sid, k)
  \/ \E sid \in StreamIds : \E k \in 1..Len(subs[sid]) : RequestFails(sid, k)
  \/ \E sid \in StreamIds : \E k \in 1..Len(subs[sid]) : StoreOpDone(sid, k)
  \/ \E sid \in StreamIds : \E k \in 1..Len(subs[sid]) : StoreOpFails(sid, k)

SpecAttached == Init /\ [][NextAttached]_vars

\* The resolutions of writes issued while attached: one per value a
\* subscription of the write's stream has taken from the request.
AttachedWriteResolutions ==
  {rho \in Resolutions :
     Operation(rho).kind = "CUDApi" /\ "push" \notin Range(Operation(rho).pipeline)}

\* C22: of a write issued while attached, each value its request emits causes
\* one store operation, an upsert of the value for create and update and a
\* delete by the match clause for delete; the caller has the value only once
\* that operation is in the store's log; and the operations of one subscription
\* are in the log in the order of the values.
C22_OneStoreOpPerEmission ==
  /\ \A rho \in AttachedWriteResolutions :
       LET c == Operation(rho)
       IN /\ Cardinality(RecordsOf(rho)) <= 1
          /\ Completed(rho) =>
               /\ Cardinality(RecordsOf(rho)) = 1
               /\ \A l \in RecordsOf(rho) : l[1] = c.database
          /\ IF c.method = "delete"
               THEN c.op = "delete" /\ c.value = c.clause
               ELSE c.op = "upsert" /\ c.value = c.v
  /\ \A db \in Databases : \A a, b \in 1..Len(store[db]) :
       ( /\ a < b
         /\ store[db][a].sid = store[db][b].sid
         /\ store[db][a].k = store[db][b].k
         /\ store[db][a].sid[1] = "write" )
       => store[db][a].pos < store[db][b].pos

C22_Witness ==
  \E w \in 1..Len(writes) : \E k \in 1..Len(subs[<<"write", w>>]) :
    /\ writes[w].method = "delete"
    /\ subs[<<"write", w>>][k].status = "done"
    /\ subs[<<"write", w>>][k].pos = 1
    /\ \A p \in {0, 1} :
         Cardinality(RecordsOf([sid |-> <<"write", w>>, k |-> k, pos |-> p])) = 1
\* C23: of a result set that validate is applied to, a record missing a
\* required field for which the padding yields nothing is handed on as it is
\* and nothing is upserted for it, and the result set is emitted with every
\* record, also when the padding yields nothing for every record.
C23_EmptyPaddingLeavesRecord ==
  delivery.rid # 0 /\ delivery.mapped =>
    /\ \A i \in Incomplete(delivery.rid, delivery.selected) :
         LET datum == delivery.selected[i]
         IN Patch(reads[delivery.rid].result.padding, datum._id) = <<Null>> =>
              /\ delivery.data[i] = datum
              /\ \A u \in 1..Len(delivery.upserts) :
                   delivery.upserts[u].value._id # datum._id
    /\ delivery.emits
    /\ Len(delivery.data) = Len(delivery.selected)
\* Reads issued while attached, the stream of each read's token subscribed to
\* up to MaxSubs times.
SubscribeEach(sid) == sid[1] = "token" /\ Len(subs[sid]) < MaxSubs /\ SubscribeTo(sid)

NextDedup ==
  \/ Attach(FirstDatabase)
  \/ \E path \in Paths, in \in ReadInputs :
       database # None /\ ApiRead(path, "CustomField", in[1], in[2], in[3], in[4])
  \/ \E sid \in StreamIds : SubscribeEach(sid)
  \/ \E sid \in StreamIds : \E k \in 1..Len(subs[sid]) : ResponseArrives(sid, k)
  \/ \E sid \in StreamIds : \E k \in 1..Len(subs[sid]) : RequestFails(sid, k)
  \/ \E sid \in StreamIds : \E k \in 1..Len(subs[sid]) : StoreOpDone(sid, k)

SpecDedup == Init /\ [][NextDedup]_vars

\* The resolutions of reads whose request is the stream dist and is with the
\* transport.
InFlightOf(dist) ==
  {rho \in Resolutions :
     /\ Operation(rho).kind = "Selector"
     /\ InFlight(rho)
     /\ reads[Operation(rho).rid].result.request = dist}

\* An entry whose stream has a request in flight is removed only by a step in
\* which a request of that stream ends.
C24_RemovedByOwnFinalizer ==
  \A u \in DOMAIN FetchStack :
    (InFlightOf(FetchStack[u]) # {} /\ u \notin DOMAIN FetchStack')
      => \E rho \in InFlightOf(FetchStack[u]) : subs'[rho.sid][rho.k] # subs[rho.sid][rho.k]

\* A stream whose entry has been removed is not entered again.
C24_RemovedOnce ==
  \A dist \in 1..Len(dists) :
    (\A u \in DOMAIN FetchStack : FetchStack[u] # dist)
      => (\A u \in DOMAIN FetchStack' : FetchStack'[u] # dist)

\* C24: every entry of SDKFetch.FetchStack is removed once, by the finalizer of
\* the request it was made for: with several subscribers and several get calls
\* on one key, no finalizer removes the entry a later get call made for a
\* request that is still in flight.
C24_EntryRemovedOnceByItsRequest ==
  [][C24_RemovedByOwnFinalizer /\ C24_RemovedOnce]_vars
\* rho is a resolution of a ReuseRequest read with the cache key key.
ReuseResolution(rho, key) ==
  /\ Operation(rho).kind = "Selector"
  /\ IsStrategy(Operation(rho).rid, CacheStrategy_Request)
  /\ CacheKeyOf(reads[Operation(rho).rid].result) = key

\* A key is marked seen only by a resolution that has not failed and whose
\* fetch and upsert are behind it.
C25_FailedNotMarked ==
  \A key \in requestMap :
    \E sid \in StreamIds : \E k \in 1..Len(subs[sid]) : \E p \in 1..subs[sid][k].pos \cup {0} :
      LET rho == [sid |-> sid, k |-> k, pos |-> p]
      IN /\ (sid[1] = "drain") = (p > 0)
         /\ ReuseResolution(rho, key)
         /\ ~Failed(rho)
         /\ \E j \in 1..Len(Operation(rho).pipeline) :
              Operation(rho).pipeline[j] = "store" /\ StageOf(rho) > j

\* A step in which the fetch or the upsert of a read fails leaves requestMap as
\* it is.
C25_FailureLeavesMap ==
  requestMap' # requestMap =>
    \A sid \in StreamIds : \A k \in 1..Len(subs[sid]) :
      ~(subs[sid][k].status = "run" /\ subs'[sid][k].status = "error")

\* A ReuseRequest read resolved while its key is not marked seen fetches.
C25_UnseenIsFetched ==
  \A r \in 1..Len(reads) :
    (IsStrategy(r, CacheStrategy_Request) /\ CacheKeyOf(reads[r].result) \notin requestMap)
      => /\ reads[r].token.branch # "buffer" => "request" \in Range(reads[r].token.pipeline)
         /\ \A d \in 1..Len(asyncQueues) : \A i \in 1..Len(asyncQueues[d]) :
              (asyncQueues[d][i].kind = "Selector" /\ asyncQueues[d][i].rid = r)
                => "request" \in Range(asyncQueues[d][i].pipeline)

C25_KeyOfFailedUnmarked == C25_FailedNotMarked /\ C25_UnseenIsFetched

\* C25: when the fetch or the upsert of a ReuseRequest read fails, the read's
\* cache key is not marked seen and requestMap is unchanged, so the next read
\* with that key fetches again.
C25_FailureNotMarkedSeen ==
  /\ []C25_KeyOfFailedUnmarked
  /\ [][C25_FailureLeavesMap]_vars

\* The upsert of a ReuseRequest read has failed, its key is not marked, and a
\* later read of the same key has been answered by the transport.
C25_Witness ==
  \E r1, r2 \in 1..Len(reads) :
    /\ r1 < r2 /\ r2 \in SameRead(r1)
    /\ IsStrategy(r1, CacheStrategy_Request)
    /\ CacheKeyOf(reads[r1].result) \notin requestMap
    /\ \E rho \in ResolutionsOf({r1}) :
         Failed(rho) /\ Operation(rho).pipeline[StageOf(rho)] = "store"
    /\ \E rho \in ResolutionsOf({r2}) : Responded(rho)
====
